---- MODULE Spec2Model ----
(***************************************************************************)
(* kurbo: src/translate_scale.rs.  TranslateScale, a uniform scale plus a  *)
(* translation, with its constructors, its inverse, its conversion to an   *)
(* Affine and its action on Point, Circle and Rect.                        *)
(*                                                                         *)
(* The fields are f64.  They are modelled by a binary floating-point       *)
(* format of the IEEE 754 shape with a reduced width: PrecBits bits of     *)
(* significand, round to nearest with ties to even, gradual underflow,     *)
(* signed zeros, overflow to an infinity, and NaN.                         *)
(***************************************************************************)
EXTENDS Integers, FiniteSets, Sequences, TLC

\* ------------------------------------------------------------------ bounds

\* Bits of significand of the modelled float format (f64 has 53).
PrecBits == 4
\* The smallest positive float is 2^-FracBits: a finite float is a whole
\* number of these units.
FracBits == 4
\* The largest exponent of a unit multiple: the largest finite float is
\* (2^PrecBits - 1) * 2^MaxExp units.
MaxExp == 7
\* How many compound assignments (*=, +=, -=) may follow a construction.
MaxAssign == 1

\* ------------------------------------------------------------------ f64

Unit == 2 ^ FracBits
MaxMag == (2 ^ PrecBits - 1) * 2 ^ MaxExp

Fin(neg, m) == [neg |-> neg, m |-> m, k |-> "fin"]
Inf(neg) == [neg |-> neg, m |-> 0, k |-> "inf"]
NaN == [neg |-> FALSE, m |-> 0, k |-> "nan"]

IsNaN(a) == a.k = "nan"
IsFinite(a) == a.k = "fin"
IsZero(a) == a.k = "fin" /\ a.m = 0

\* The float of the whole number i, and of i / 2^j (exact for the small i
\* the model draws).
FromInt(i) == Fin(i < 0, (IF i < 0 THEN -i ELSE i) * Unit)
FromFrac(i, j) == Fin(i < 0, ((IF i < 0 THEN -i ELSE i) * Unit) \div (2 ^ j))
\* The smallest positive float (f64: 5e-324).
MinPositive == Fin(FALSE, 1)

RECURSIVE RoundShift(_, _, _)
RoundShift(num, den, e) ==
  IF num \div (den * 2 ^ e) < 2 ^ PrecBits THEN e ELSE RoundShift(num, den, e + 1)

\* The float nearest to the real num/den units (ties to even), with the
\* sign neg; an infinity when the rounded magnitude exceeds MaxMag.
Round(neg, num, den) ==
  LET e == RoundShift(num, den, 0)
      d == den * 2 ^ e
      fl == num \div d
      rem == num - fl * d
      up == 2 * rem > d \/ (2 * rem = d /\ fl % 2 = 1)
      mag == (IF up THEN fl + 1 ELSE fl) * 2 ^ e
  IN IF mag > MaxMag THEN Inf(neg) ELSE Fin(neg, mag)

\* The rounding of num/den changes nothing: the real result is a float.
ExactRound(num, den) ==
  LET r == Round(FALSE, num, den) IN r.k = "fin" /\ r.m * den = num

Signed(a) == IF a.neg THEN -a.m ELSE a.m
Abs(i) == IF i < 0 THEN -i ELSE i

\* f64: -a
FNeg(a) == IF IsNaN(a) THEN NaN ELSE [neg |-> ~a.neg, m |-> a.m, k |-> a.k]

\* f64: a + b
FAdd(a, b) ==
  IF IsNaN(a) \/ IsNaN(b) THEN NaN
  ELSE IF a.k = "inf" /\ b.k = "inf" THEN (IF a.neg = b.neg THEN a ELSE NaN)
  ELSE IF a.k = "inf" THEN a
  ELSE IF b.k = "inf" THEN b
  ELSE LET s == Signed(a) + Signed(b)
       IN IF s = 0 THEN Fin(a.neg /\ b.neg, 0) ELSE Round(s < 0, Abs(s), 1)

\* f64: a - b
FSub(a, b) == FAdd(a, FNeg(b))

\* f64: a * b
FMul(a, b) ==
  IF IsNaN(a) \/ IsNaN(b) THEN NaN
  ELSE IF (a.k = "inf" /\ IsZero(b)) \/ (IsZero(a) /\ b.k = "inf") THEN NaN
  ELSE IF a.k = "inf" \/ b.k = "inf" THEN Inf(a.neg # b.neg)
  ELSE Round(a.neg # b.neg, a.m * b.m, Unit)

\* f64::recip: 1.0 / a
FRecip(a) ==
  IF IsNaN(a) THEN NaN
  ELSE IF a.k = "inf" THEN Fin(a.neg, 0)
  ELSE IF a.m = 0 THEN Inf(a.neg)
  ELSE Round(a.neg, Unit * Unit, a.m)

\* f64: a == b (a NaN equals nothing, the two zeros are equal)
FEq(a, b) == ~IsNaN(a) /\ ~IsNaN(b) /\ ((IsZero(a) /\ IsZero(b)) \/ a = b)

Ord(a) == IF a.k = "inf" THEN (IF a.neg THEN -(MaxMag + 1) ELSE MaxMag + 1) ELSE Signed(a)
\* f64: a < b, a <= b
FLt(a, b) == ~IsNaN(a) /\ ~IsNaN(b) /\ Ord(a) < Ord(b)
FLe(a, b) == ~IsNaN(a) /\ ~IsNaN(b) /\ Ord(a) <= Ord(b)
\* f64::min, f64::max (a NaN operand is ignored)
FMin(a, b) == IF IsNaN(a) THEN b ELSE IF IsNaN(b) THEN a ELSE IF FLt(b, a) THEN b ELSE a
FMax(a, b) == IF IsNaN(a) THEN b ELSE IF IsNaN(b) THEN a ELSE IF FLt(a, b) THEN b ELSE a

\* The sum, the product, the reciprocal is the real one: no rounding, no
\* overflow, finite operands.
FAddExact(a, b) == IsFinite(a) /\ IsFinite(b) /\ ExactRound(Abs(Signed(a) + Signed(b)), 1)
FMulExact(a, b) == IsFinite(a) /\ IsFinite(b) /\ ExactRound(a.m * b.m, Unit)
FRecipExact(a) == IsFinite(a) /\ a.m # 0 /\ ExactRound(Unit * Unit, a.m)

\* ------------------------------------------------------------------ Vec2, Point, Affine, Rect, Circle

\* Vec2 { x, y } and Point { x, y }
Vec2_new(x, y) == [x |-> x, y |-> y]
Point_new(x, y) == [x |-> x, y |-> y]
\* Vec2::ZERO
Vec2_ZERO == Vec2_new(FromInt(0), FromInt(0))
\* Point::to_vec2, Vec2::to_point
to_vec2(p) == Vec2_new(p.x, p.y)
to_point(v) == Point_new(v.x, v.y)
\* Vec2 + Vec2, Vec2 - Vec2, Vec2 * f64, f64 * Vec2, Point + Vec2
Vec2_add(a, b) == Vec2_new(FAdd(a.x, b.x), FAdd(a.y, b.y))
Vec2_sub(a, b) == Vec2_new(FSub(a.x, b.x), FSub(a.y, b.y))
Vec2_mul_f64(v, k) == Vec2_new(FMul(v.x, k), FMul(v.y, k))
f64_mul_Vec2(k, v) == Vec2_mul_f64(v, k)
Point_add_Vec2(p, v) == Point_new(FAdd(p.x, v.x), FAdd(p.y, v.y))

\* Affine::new: the six coefficients, kept as given
Affine_new(c) == c
\* Affine * Point
Affine_mul_Point(a, p) ==
  Point_new(FAdd(FAdd(FMul(a[1], p.x), FMul(a[3], p.y)), a[5]),
            FAdd(FAdd(FMul(a[2], p.x), FMul(a[4], p.y)), a[6]))

\* Rect::new: the four coordinates, kept as given
Rect_new(x0, y0, x1, y1) == [x0 |-> x0, y0 |-> y0, x1 |-> x1, y1 |-> y1]
\* Rect::abs: the same rectangle with non-negative width and height
Rect_abs(r) == Rect_new(FMin(r.x0, r.x1), FMin(r.y0, r.y1), FMax(r.x0, r.x1), FMax(r.y0, r.y1))
\* impl From<(Point, Point)> for Rect: the normalized rectangle of two corners
Rect_from(p0, p1) == Rect_abs(Rect_new(p0.x, p0.y, p1.x, p1.y))

\* Circle::new: the centre and the radius, kept as given
Circle_new(center, radius) == [center |-> center, radius |-> radius]

\* ------------------------------------------------------------------ TranslateScale

\* TranslateScale::new
new(translation, scale) == [translation |-> translation, scale |-> scale]

\* TranslateScale::scale
TranslateScale_scale(s) == new(Vec2_ZERO, s)

\* TranslateScale::translate
translate(t) == new(t, FromInt(1))

\* TranslateScale::as_tuple
as_tuple(self) == <<self.translation, self.scale>>

\* inverse with the sign of the translation kept
inverse_unnegated(self) ==
  LET scale_recip == FRecip(self.scale)
  IN [translation |-> Vec2_mul_f64(self.translation, scale_recip),
      scale |-> scale_recip]

\* TranslateScale::inverse: the value it returns
inverse(self) ==
  LET scale_recip == FRecip(self.scale)
  IN [translation |-> Vec2_mul_f64(self.translation, FNeg(scale_recip)),
      scale |-> scale_recip]

\* TranslateScale::inverse: whether the call panics. The body is one
\* recip(), two negations and two multiplications of f64: none of them
\* panics, for any scale.
inverse_panics(self) == FALSE

\* default as the all-zero value a derived Default would give
default_zeroed == TranslateScale_scale(FromInt(0))

\* impl Default for TranslateScale
default == TranslateScale_scale(FromInt(1))

\* the conversion with the coefficients laid out row by row
Affine_from_by_rows(ts) ==
  Affine_new(<<ts.scale, FromInt(0), ts.translation.x, FromInt(0), ts.scale, ts.translation.y>>)

\* impl From<TranslateScale> for Affine
Affine_from(ts) ==
  Affine_new(<<ts.scale, FromInt(0), FromInt(0), ts.scale, ts.translation.x, ts.translation.y>>)

\* the action on a point with the translation applied before the scale
mul_Point_translate_first(self, other) ==
  to_point(f64_mul_Vec2(self.scale, to_vec2(Point_add_Vec2(other, self.translation))))

\* impl Mul<Point> for TranslateScale
mul_Point(self, other) ==
  Point_add_Vec2(to_point(f64_mul_Vec2(self.scale, to_vec2(other))), self.translation)

\* the composition with the translation of other left unscaled
mul_unscaled(self, other) ==
  [translation |-> Vec2_add(self.translation, other.translation),
   scale |-> FMul(self.scale, other.scale)]

\* impl Mul for TranslateScale
mul(self, other) ==
  [translation |-> Vec2_add(self.translation, f64_mul_Vec2(self.scale, other.translation)),
   scale |-> FMul(self.scale, other.scale)]

\* impl MulAssign for TranslateScale: the new *self
mul_assign(self, other) == mul(self, other)

\* k * T computed as T * k: the translation left unscaled
f64_mul_as_right(self, other) ==
  [translation |-> other.translation,
   scale |-> FMul(other.scale, self)]

\* impl Mul<TranslateScale> for f64
f64_mul(self, other) ==
  [translation |-> Vec2_mul_f64(other.translation, self),
   scale |-> FMul(other.scale, self)]

\* impl Mul<f64> for TranslateScale
mul_f64(self, other) ==
  [translation |-> self.translation,
   scale |-> FMul(self.scale, other)]

\* impl Add<Vec2> for TranslateScale
add(self, other) ==
  [translation |-> Vec2_add(self.translation, other),
   scale |-> self.scale]

\* impl Add<TranslateScale> for Vec2
Vec2_add_TranslateScale(self, other) == add(other, self)

\* impl AddAssign<Vec2> for TranslateScale: the new *self
add_assign(self, other) == add(self, other)

\* the subtraction with the sign of the vector lost
sub_added(self, other) ==
  [translation |-> Vec2_add(self.translation, other),
   scale |-> self.scale]

\* impl Sub<Vec2> for TranslateScale
sub(self, other) ==
  [translation |-> Vec2_sub(self.translation, other),
   scale |-> self.scale]

\* impl SubAssign<Vec2> for TranslateScale: the new *self
sub_assign(self, other) == sub(self, other)

\* the action on a circle with the radius left unscaled
mul_Circle_unscaled(self, other) ==
  Circle_new(mul_Point(self, other.center), other.radius)

\* impl Mul<Circle> for TranslateScale
mul_Circle(self, other) ==
  Circle_new(mul_Point(self, other.center), FMul(self.scale, other.radius))

\* the action on a rectangle with the corners kept in the order given
mul_Rect_raw(self, other) ==
  LET pt0 == mul_Point(self, Point_new(other.x0, other.y0))
      pt1 == mul_Point(self, Point_new(other.x1, other.y1))
  IN Rect_new(pt0.x, pt0.y, pt1.x, pt1.y)

\* impl Mul<Rect> for TranslateScale
mul_Rect(self, other) ==
  LET pt0 == mul_Point(self, Point_new(other.x0, other.y0))
      pt1 == mul_Point(self, Point_new(other.x1, other.y1))
  IN Rect_from(pt0, pt1)

\* ------------------------------------------------------------------ inputs

\* The scalars the operations are called with: scales and factors.
InScalar == {FromInt(0), FromInt(-2), FromFrac(1, 1), FromFrac(3, 2), FromInt(2), FromInt(3)}
\* The vectors: translations and offsets.
InVec == {Vec2_ZERO,
          Vec2_new(FromInt(5), FromInt(6)),
          Vec2_new(FromInt(1), FromInt(0)),
          Vec2_new(FromInt(-3), FromFrac(1, 1))}
\* The translations of translate(): those, and one of the smallest length.
InTranslate == InVec \cup {Vec2_new(MinPositive, FromInt(0))}
\* The points.
InPoint == {Point_new(FromInt(3), FromInt(4)),
            Point_new(FromInt(0), FromInt(0)),
            Point_new(FromInt(-1), FromFrac(5, 1)),
            Point_new(FromInt(7), FromFrac(1, 2))}
\* The transforms given as the right operand of a composition.
InOther == {new(t, s) :
              t \in {Vec2_new(FromInt(5), FromInt(6)),
                     Vec2_new(FromInt(1), FromInt(0)),
                     Vec2_new(FromInt(-3), FromFrac(1, 1))},
              s \in {FromInt(-2), FromFrac(1, 1), FromInt(2), FromInt(3)}}
\* The right operands of the compound assignments.
InAssignOther == {new(Vec2_new(FromInt(5), FromInt(6)), FromInt(2)),
                  new(Vec2_new(FromInt(-3), FromFrac(1, 1)), FromInt(3))}
InAssignVec == {Vec2_new(FromInt(5), FromInt(6)), Vec2_new(FromInt(1), FromInt(0))}
\* The rectangles (the last one is not normalized).
InRect == {Rect_new(FromInt(0), FromInt(0), FromInt(3), FromInt(4)),
           Rect_new(FromInt(-1), FromFrac(1, 1), FromInt(5), FromInt(6)),
           Rect_new(FromInt(3), FromInt(4), FromInt(0), FromInt(0))}
\* The circles, all of a non-negative radius.
InCircle == {Circle_new(Point_new(FromInt(3), FromInt(4)), FromInt(2)),
             Circle_new(Point_new(FromInt(0), FromInt(0)), FromInt(0)),
             Circle_new(Point_new(FromInt(-1), FromFrac(5, 1)), FromFrac(1, 1))}

\* ------------------------------------------------------------------ state

VARIABLES
  ts,        \* the TranslateScale value the caller holds
  op,        \* the operation called last
  arg,       \* its operands: self (the value of ts at the call) and other
  res,       \* the value it returned
  panicked,  \* whether it panicked instead of returning
  nAssign    \* compound assignments since ts was constructed

vars == <<ts, op, arg, res, panicked, nAssign>>

\* A constructor: ts becomes the value constructed.
Construct(o, a, v) ==
  /\ ts' = v
  /\ op' = o
  /\ arg' = a
  /\ res' = v
  /\ panicked' = FALSE
  /\ nAssign' = 0

\* An operation that takes self by value and returns a value.
Return(o, other, v) ==
  /\ op' = o
  /\ arg' = [self |-> ts, other |-> other]
  /\ res' = v
  /\ panicked' = FALSE
  /\ UNCHANGED <<ts, nAssign>>

\* A compound assignment: *self is replaced by the value computed.
Assign(o, other, v) ==
  /\ nAssign < MaxAssign
  /\ ts' = v
  /\ op' = o
  /\ arg' = [self |-> ts, other |-> other]
  /\ res' = v
  /\ panicked' = FALSE
  /\ nAssign' = nAssign + 1

Init ==
  /\ ts = default
  /\ op = "default"
  /\ arg = [self |-> default, other |-> FromInt(1)]
  /\ res = default
  /\ panicked = FALSE
  /\ nAssign = 0

CallDefault == Construct("default", [self |-> default, other |-> FromInt(1)], default)

CallNew == \E t \in InVec, s \in InScalar :
  Construct("new", [self |-> new(t, s), other |-> <<t, s>>], new(t, s))

CallScale == \E s \in InScalar :
  Construct("scale", [self |-> TranslateScale_scale(s), other |-> s], TranslateScale_scale(s))

CallTranslate == \E t \in InTranslate :
  Construct("translate", [self |-> translate(t), other |-> t], translate(t))

CallAsTuple == Return("as_tuple", FromInt(0), as_tuple(ts))

CallInverse ==
  /\ op' = "inverse"
  /\ arg' = [self |-> ts, other |-> FromInt(0)]
  /\ res' = inverse(ts)
  /\ panicked' = inverse_panics(ts)
  /\ UNCHANGED <<ts, nAssign>>

CallAffineFrom == Return("into_affine", FromInt(0), Affine_from(ts))

CallMulPoint == \E p \in InPoint : Return("mul_point", p, mul_Point(ts, p))

CallMul == \E o \in InOther : Return("mul", o, mul(ts, o))

CallMulAssign == \E o \in InAssignOther : Assign("mul_assign", o, mul_assign(ts, o))

CallF64Mul == \E k \in InScalar : Return("f64_mul", k, f64_mul(k, ts))

CallMulF64 == \E k \in InScalar : Return("mul_f64", k, mul_f64(ts, k))

CallAdd == \E v \in InVec : Return("add", v, add(ts, v))

CallVec2Add == \E v \in InVec : Return("vec2_add", v, Vec2_add_TranslateScale(v, ts))

CallAddAssign == \E v \in InAssignVec : Assign("add_assign", v, add_assign(ts, v))

CallSub == \E v \in InVec : Return("sub", v, sub(ts, v))

CallSubAssign == \E v \in InAssignVec : Assign("sub_assign", v, sub_assign(ts, v))

CallMulCircle == \E c \in InCircle : Return("mul_circle", c, mul_Circle(ts, c))

CallMulRect == \E r \in InRect : Return("mul_rect", r, mul_Rect(ts, r))

Next ==
  \/ CallDefault
  \/ CallNew
  \/ CallScale
  \/ CallTranslate
  \/ CallAsTuple
  \/ CallInverse
  \/ CallAffineFrom
  \/ CallMulPoint
  \/ CallMul
  \/ CallMulAssign
  \/ CallF64Mul
  \/ CallMulF64
  \/ CallAdd
  \/ CallVec2Add
  \/ CallAddAssign
  \/ CallSub
  \/ CallSubAssign
  \/ CallMulCircle
  \/ CallMulRect

Spec == Init /\ [][Next]_vars

\* ------------------------------------------------------------------ properties

\* Point == Point and TranslateScale compared field by field with f64's ==
PtEq(p, q) == FEq(p.x, q.x) /\ FEq(p.y, q.y)
TsEq(a, b) == PtEq(a.translation, b.translation) /\ FEq(a.scale, b.scale)

\* The values the interface accepts: finite scalars.
FiniteVec(v) == IsFinite(v.x) /\ IsFinite(v.y)
FiniteTS(t) == FiniteVec(t.translation) /\ IsFinite(t.scale)

\* Every product and sum of self * p, of self * other, of self.inverse()
\* is the real one.
mul_Point_exact(self, p) ==
  /\ FMulExact(p.x, self.scale)
  /\ FMulExact(p.y, self.scale)
  /\ FAddExact(FMul(p.x, self.scale), self.translation.x)
  /\ FAddExact(FMul(p.y, self.scale), self.translation.y)
mul_exact(self, other) ==
  /\ FMulExact(other.translation.x, self.scale)
  /\ FMulExact(other.translation.y, self.scale)
  /\ FAddExact(self.translation.x, FMul(other.translation.x, self.scale))
  /\ FAddExact(self.translation.y, FMul(other.translation.y, self.scale))
  /\ FMulExact(self.scale, other.scale)
inverse_exact(self) ==
  /\ FRecipExact(self.scale)
  /\ FMulExact(self.translation.x, FNeg(FRecip(self.scale)))
  /\ FMulExact(self.translation.y, FNeg(FRecip(self.scale)))

P34 == Point_new(FromInt(3), FromInt(4))
T562 == new(Vec2_new(FromInt(5), FromInt(6)), FromInt(2))

\* C1: the Affine made from a transform has the coefficients
\* [s, 0, 0, s, tx, ty], and applied to a point it gives the same point as
\* the transform does.
C1_ConversionConsistency ==
  op = "into_affine" =>
    /\ res = <<arg.self.scale, FromInt(0), FromInt(0), arg.self.scale,
               arg.self.translation.x, arg.self.translation.y>>
    /\ FiniteTS(arg.self) =>
         \A p \in InPoint : PtEq(Affine_mul_Point(res, p), mul_Point(arg.self, p))

C1_Witness ==
  /\ op = "into_affine"
  /\ arg.self = T562
  /\ Affine_mul_Point(res, P34) = Point_new(FromInt(11), FromInt(14))

\* C2: T * p is (s * p.x + t.x, s * p.y + t.y): scale, then translate.
\* scale(s) * p is p scaled by s, translate(t) * p is p + t, and
\* new((5, 6), 2) * (3, 4) is (11, 14).
C2_PointAction ==
  /\ op = "mul_point" =>
       /\ res.x = FAdd(FMul(arg.self.scale, arg.other.x), arg.self.translation.x)
       /\ res.y = FAdd(FMul(arg.self.scale, arg.other.y), arg.self.translation.y)
  /\ op = "scale" =>
       \A p \in InPoint : PtEq(mul_Point(res, p), to_point(f64_mul_Vec2(arg.other, to_vec2(p))))
  /\ op = "translate" =>
       \A p \in InPoint : PtEq(mul_Point(res, p), Point_add_Vec2(p, arg.other))
  /\ (op = "mul_point" /\ arg.self = T562 /\ arg.other = P34) =>
       res = Point_new(FromInt(11), FromInt(14))

C2_Witness ==
  /\ op = "mul_point"
  /\ arg.self = T562
  /\ arg.other = P34
  /\ res = Point_new(FromInt(11), FromInt(14))

\* C3 as stated: A * B has translation A.translation + A.scale *
\* B.translation and scale A.scale * B.scale, and (A * B) * p == A * (B * p)
\* for every point p.
C3_ComposeThenApply ==
  (op = "mul" /\ FiniteTS(arg.self)) =>
    /\ res.translation.x = FAdd(arg.self.translation.x, FMul(arg.self.scale, arg.other.translation.x))
    /\ res.translation.y = FAdd(arg.self.translation.y, FMul(arg.self.scale, arg.other.translation.y))
    /\ res.scale = FMul(arg.self.scale, arg.other.scale)
    /\ \A p \in InPoint : PtEq(mul_Point(res, p), mul_Point(arg.self, mul_Point(arg.other, p)))

\* C3 amended: A * B has that translation and that scale, and
\* (A * B) * p == A * (B * p) whenever no product or sum of the two
\* computations is rounded.
C3_ComposeThenApplyExact ==
  op = "mul" =>
    /\ res.translation.x = FAdd(arg.self.translation.x, FMul(arg.self.scale, arg.other.translation.x))
    /\ res.translation.y = FAdd(arg.self.translation.y, FMul(arg.self.scale, arg.other.translation.y))
    /\ res.scale = FMul(arg.self.scale, arg.other.scale)
    /\ \A p \in InPoint :
         ( /\ mul_exact(arg.self, arg.other)
           /\ mul_Point_exact(res, p)
           /\ mul_Point_exact(arg.other, p)
           /\ mul_Point_exact(arg.self, mul_Point(arg.other, p)) )
         => PtEq(mul_Point(res, p), mul_Point(arg.self, mul_Point(arg.other, p)))

\* An exact composition of two transforms that do not commute.
C3_Witness ==
  /\ op = "mul"
  /\ ~IsZero(arg.self.scale)
  /\ ~TsEq(res, mul(arg.other, arg.self))
  /\ \E p \in InPoint :
       /\ ~IsZero(p.x)
       /\ mul_exact(arg.self, arg.other)
       /\ mul_Point_exact(res, p)
       /\ mul_Point_exact(arg.other, p)
       /\ mul_Point_exact(arg.self, mul_Point(arg.other, p))
       /\ ~PtEq(mul_Point(res, p), mul_Point(mul(arg.other, arg.self), p))

\* C4 as stated: for a non-zero scale s, T.inverse() is
\* new(t * -(1/s), 1/s), and (T * T.inverse()) * p and (T.inverse() * T) * p
\* equal p for every point p.
C4_InverseRoundTrip ==
  (op = "inverse" /\ FiniteTS(arg.self) /\ ~IsZero(arg.self.scale)) =>
    /\ res.translation.x = FMul(arg.self.translation.x, FNeg(FRecip(arg.self.scale)))
    /\ res.translation.y = FMul(arg.self.translation.y, FNeg(FRecip(arg.self.scale)))
    /\ res.scale = FRecip(arg.self.scale)
    /\ \A p \in InPoint :
         /\ PtEq(mul_Point(mul(arg.self, res), p), p)
         /\ PtEq(mul_Point(mul(res, arg.self), p), p)

\* C4 amended: T.inverse() is new(t * -(1/s), 1/s), and both round trips
\* give p back whenever the reciprocal and the products and sums of the
\* round trip are not rounded.
C4_InverseRoundTripExact ==
  (op = "inverse" /\ ~IsZero(arg.self.scale)) =>
    /\ res.translation.x = FMul(arg.self.translation.x, FNeg(FRecip(arg.self.scale)))
    /\ res.translation.y = FMul(arg.self.translation.y, FNeg(FRecip(arg.self.scale)))
    /\ res.scale = FRecip(arg.self.scale)
    /\ \A p \in InPoint :
         /\ ( /\ inverse_exact(arg.self)
              /\ mul_exact(arg.self, res)
              /\ mul_Point_exact(mul(arg.self, res), p) )
            => PtEq(mul_Point(mul(arg.self, res), p), p)
         /\ ( /\ inverse_exact(arg.self)
              /\ mul_exact(res, arg.self)
              /\ mul_Point_exact(mul(res, arg.self), p) )
            => PtEq(mul_Point(mul(res, arg.self), p), p)

C4_Witness ==
  /\ op = "inverse"
  /\ arg.self = T562
  /\ res = new(Vec2_new(FromFrac(-5, 1), FromInt(-3)), FromFrac(1, 1))
  /\ inverse_exact(arg.self)
  /\ mul_exact(arg.self, res)
  /\ mul_exact(res, arg.self)
  /\ mul_Point_exact(mul(arg.self, res), P34)
  /\ mul_Point_exact(mul(res, arg.self), P34)
  /\ PtEq(mul_Point(mul(arg.self, res), P34), P34)
  /\ PtEq(mul_Point(mul(res, arg.self), P34), P34)

\* C5: inverse() of a transform whose scale is zero panics; it returns no
\* value.
C5_InverseOfZeroScalePanics ==
  (op = "inverse" /\ IsZero(arg.self.scale)) => panicked

\* C6 as stated: k * T has translation T.translation * k and scale
\* T.scale * k and is scale(k) * T; T * k has translation T.translation and
\* scale T.scale * k and is T * scale(k); and for k != 1 and
\* T.translation != 0 the two have the same scale and different
\* translations.
C6_ScalarAsymmetry ==
  /\ op = "f64_mul" =>
       /\ res.translation.x = FMul(arg.self.translation.x, arg.other)
       /\ res.translation.y = FMul(arg.self.translation.y, arg.other)
       /\ res.scale = FMul(arg.self.scale, arg.other)
       /\ FiniteTS(arg.self) => TsEq(res, mul(TranslateScale_scale(arg.other), arg.self))
       /\ ( /\ FiniteTS(arg.self)
            /\ ~FEq(arg.other, FromInt(1))
            /\ ~PtEq(arg.self.translation, Vec2_ZERO) )
          => /\ FEq(res.scale, mul_f64(arg.self, arg.other).scale)
             /\ ~PtEq(res.translation, mul_f64(arg.self, arg.other).translation)
  /\ op = "mul_f64" =>
       /\ res.translation = arg.self.translation
       /\ res.scale = FMul(arg.self.scale, arg.other)
       /\ FiniteTS(arg.self) => TsEq(res, mul(arg.self, TranslateScale_scale(arg.other)))

\* C6 amended: the same, with the translations different whenever the
\* products T.translation * k are not rounded; 2 * translate((1, 0)) has
\* translation (2, 0), translate((1, 0)) * 2 has translation (1, 0), both
\* have scale 2.
C6_ScalarAsymmetryExact ==
  /\ op = "f64_mul" =>
       /\ res.translation.x = FMul(arg.self.translation.x, arg.other)
       /\ res.translation.y = FMul(arg.self.translation.y, arg.other)
       /\ res.scale = FMul(arg.self.scale, arg.other)
       /\ FiniteTS(arg.self) => TsEq(res, mul(TranslateScale_scale(arg.other), arg.self))
       /\ ( /\ FiniteTS(arg.self)
            /\ ~FEq(arg.other, FromInt(1))
            /\ ~PtEq(arg.self.translation, Vec2_ZERO) )
          => /\ FEq(res.scale, mul_f64(arg.self, arg.other).scale)
             /\ ( /\ FMulExact(arg.self.translation.x, arg.other)
                  /\ FMulExact(arg.self.translation.y, arg.other) )
                => ~PtEq(res.translation, mul_f64(arg.self, arg.other).translation)
       /\ (arg.self = translate(Vec2_new(FromInt(1), FromInt(0))) /\ arg.other = FromInt(2))
          => res = new(Vec2_new(FromInt(2), FromInt(0)), FromInt(2))
  /\ op = "mul_f64" =>
       /\ res.translation = arg.self.translation
       /\ res.scale = FMul(arg.self.scale, arg.other)
       /\ FiniteTS(arg.self) => TsEq(res, mul(arg.self, TranslateScale_scale(arg.other)))
       /\ (arg.self = translate(Vec2_new(FromInt(1), FromInt(0))) /\ arg.other = FromInt(2))
          => res = new(Vec2_new(FromInt(1), FromInt(0)), FromInt(2))

C6_Witness ==
  /\ op = "f64_mul"
  /\ arg.self = translate(Vec2_new(FromInt(1), FromInt(0)))
  /\ arg.other = FromInt(2)
  /\ res.translation = Vec2_new(FromInt(2), FromInt(0))
  /\ mul_f64(arg.self, arg.other).translation = Vec2_new(FromInt(1), FromInt(0))
  /\ res.scale = FromInt(2)

\* C7: the default transform is new(zero, 1), and applied to a point it
\* gives the point back.
C7_DefaultIsIdentity ==
  op = "default" =>
    /\ res = new(Vec2_ZERO, FromInt(1))
    /\ ts = res
    /\ \A p \in InPoint : PtEq(mul_Point(res, p), p)

C7_Witness ==
  /\ op = "default"
  /\ res.scale = FromInt(1)
  /\ mul_Point(ts, P34) = P34

\* C8: T + v and T - v have translation T.translation + v and
\* T.translation - v and the scale of T, and v + T is T + v.
C8_VectorAdjustment ==
  /\ op = "add" =>
       /\ res.translation.x = FAdd(arg.self.translation.x, arg.other.x)
       /\ res.translation.y = FAdd(arg.self.translation.y, arg.other.y)
       /\ res.scale = arg.self.scale
  /\ op = "sub" =>
       /\ res.translation.x = FSub(arg.self.translation.x, arg.other.x)
       /\ res.translation.y = FSub(arg.self.translation.y, arg.other.y)
       /\ res.scale = arg.self.scale
  /\ op = "vec2_add" =>
       /\ res = add(arg.self, arg.other)
       /\ res.scale = arg.self.scale

C8_Witness ==
  /\ op = "sub"
  /\ arg.self = T562
  /\ arg.other = Vec2_new(FromInt(1), FromInt(0))
  /\ res = new(Vec2_new(FromInt(4), FromInt(6)), FromInt(2))

\* C9: T * r is the normalized rectangle of T * (r.x0, r.y0) and
\* T * (r.x1, r.y1): x0 <= x1 and y0 <= y1, also for a negative or zero
\* scale.
C9_RectNormalized ==
  (op = "mul_rect" /\ FiniteTS(arg.self)) =>
    /\ res = Rect_from(mul_Point(arg.self, Point_new(arg.other.x0, arg.other.y0)),
                       mul_Point(arg.self, Point_new(arg.other.x1, arg.other.y1)))
    /\ FLe(res.x0, res.x1)
    /\ FLe(res.y0, res.y1)

\* A negative scale under which the first corner no longer is the minimum.
C9_Witness ==
  /\ op = "mul_rect"
  /\ FLt(arg.self.scale, FromInt(0))
  /\ FLt(arg.other.x0, arg.other.x1)
  /\ FLt(arg.other.y0, arg.other.y1)
  /\ FLt(mul_Point(arg.self, Point_new(arg.other.x1, arg.other.y1)).x,
         mul_Point(arg.self, Point_new(arg.other.x0, arg.other.y0)).x)
  /\ FLt(res.x0, res.x1)
  /\ FLt(res.y0, res.y1)

\* C10 as stated: T * c has centre T * c.center and a non-negative radius,
\* for any scale.
C10_RadiusNonNegative ==
  (op = "mul_circle" /\ FiniteTS(arg.self)) =>
    /\ PtEq(res.center, mul_Point(arg.self, arg.other.center))
    /\ FLe(FromInt(0), res.radius)

\* C10 amended: T * c has centre T * c.center and radius
\* T.scale * c.radius, which is non-negative when T.scale is non-negative
\* and negative or zero when T.scale is negative.
C10_RadiusScaled ==
  (op = "mul_circle" /\ FiniteTS(arg.self)) =>
    /\ PtEq(res.center, mul_Point(arg.self, arg.other.center))
    /\ res.radius = FMul(arg.self.scale, arg.other.radius)
    /\ FLe(FromInt(0), arg.self.scale) => FLe(FromInt(0), res.radius)
    /\ FLt(arg.self.scale, FromInt(0)) => FLe(res.radius, FromInt(0))

C10_Witness ==
  /\ op = "mul_circle"
  /\ arg.self.scale = FromInt(2)
  /\ arg.other.radius = FromInt(2)
  /\ res.radius = FromInt(4)

====
